---- MODULE Spec2Model ----
(***************************************************************************)
(* Model of the CameraRecorder component of src/src/App.jsx: device        *)
(* acquisition (startPreview with its permission retry, startRecording,    *)
(* switchCamera), the chunk buffer fed by the MediaRecorder callbacks, the *)
(* process-wide memoryManager registry, and the unmount cleanup.           *)
(*                                                                         *)
(* React closures are modelled as the code has them: an async function     *)
(* keeps the state values of the render that created it, so every          *)
(* in-flight call (a "task") and every pending setTimeout carries the      *)
(* facingMode and isPreviewing it captured.  Button handlers read the      *)
(* state of the latest render, and are enabled as the JSX renders them.    *)
(***************************************************************************)
EXTENDS Integers, Sequences, FiniteSets, Bags, TLC

VARIABLES
  mounted,              \* the component is mounted (before the effect cleanup)
  isRecording,          \* useState, line 95
  videoUrl,             \* useState, line 96 (Null or a URL id)
  facingMode,           \* useState, line 97
  isPreviewing,         \* useState, line 98
  isLoading,            \* useState, line 102
  error,                \* useState, line 103 ("null" or the message)
  recordingTime,        \* useState, line 104
  videoSize,            \* useState, line 109 (NoSize or the blob size)
  filter,               \* useState, line 99
  brightness,           \* useState, line 106
  contrast,             \* useState, line 107
  saturation,           \* useState, line 108
  videoQuality,         \* useState, line 105
  filterString,         \* what applyFilters last returned, line 229
  mediaRecorderRef,     \* useRef, line 111 (Null or a recorder id)
  videoStreamRef,       \* useRef, line 112 (Null or a stream id)
  recordedChunks,       \* useRef, line 113: the chunk buffer
  animationFrameRef,    \* useRef, line 117 (Null or a callback id)
  recordingIntervalRef, \* useRef, line 118 (Null or an interval id)
  listeners,            \* loadedmetadata listeners on the video (a bag)
  draws,                \* host: pending draw callbacks (frame or timer)
  metadataDue,          \* host: the video has a loadedmetadata event to fire
  mmChunks,             \* memoryManager.chunks, line 65
  mmUrls,               \* memoryManager.urls, line 66
  live,                 \* host: streams whose tracks are not stopped
  nRequests,            \* host: getUserMedia requests issued so far
  lastRequest,          \* host: the video constraints of the latest request
  lastOptions,          \* host: the options of the last MediaRecorder made
  recorders,            \* host: the MediaRecorder objects, by id
  intervals,            \* host: active setInterval timers
  nUrls,                \* host: object URLs created so far (ids 1..nUrls)
  blobs,                \* host: the blobs behind the artifact URLs, in order
  revoked,              \* host: object URLs revoked
  nChunks,              \* host: non-empty chunks emitted so far
  tasks,                \* async calls suspended at an await (a bag)
  timers,               \* pending setTimeout callbacks (a bag)
  last                  \* the step just taken: the handler or callback that
                        \* ran, the call or timer it ran for, what the host
                        \* delivered to it

compVars == <<mounted, isRecording, videoUrl, facingMode, isPreviewing,
              isLoading, error, recordingTime, videoSize>>
filterVars == <<filter, brightness, contrast, saturation, videoQuality,
                filterString>>
refVars == <<mediaRecorderRef, videoStreamRef, recordedChunks,
             animationFrameRef, recordingIntervalRef, listeners>>
mmVars == <<mmChunks, mmUrls>>
hostVars == <<draws, metadataDue, live, nRequests, lastRequest, lastOptions,
              recorders, intervals, nUrls, blobs, revoked, nChunks>>
vars == <<compVars, filterVars, refVars, mmVars, hostVars, tasks, timers,
          last>>

-----------------------------------------------------------------------------
(* Bounds of the exploration *)
MaxRequests == 2
MaxRecorders == 2
MaxChunks == 1
MaxChunkSize == 1
BufRunLen == 1002
MaxTime == 2
TimerRequests == 3

(* Program constants *)
Null == 0
NoSize == -1
WorkerUrl == 1
ChunkLimit == 1000
TrimCount == 500
DefaultLevel == 100

FacingModes == {"user", "environment"}
PermissionDenial == {"NotAllowedError", "PermissionDeniedError"}
ErrorKinds == PermissionDenial \cup {"NotFoundError"}
PermissionStates == {"granted", "prompt", "denied"}

\* The messages of setError.  Where the code appends the caught error's
\* message (lines 448, 460, 546, 583) the constant is the text before it.
ErrDenied ==
  "Camera and microphone access is required. Please enable permissions "
    \o "in your browser settings and try again."
ErrRetry ==
  "Please grant camera and microphone permissions and try again. Error: "
ErrPermCheck ==
  "Unable to check permissions. Please ensure camera and microphone "
    \o "access is allowed and try again."
ErrPreview == "Failed to start preview: "
ErrRecording == "Failed to start recording: "
ErrDownload == "Download failed: "
ErrProcess == "Failed to process recording: "
NoError == "null"
NoRequest == [facingMode |-> "none", width |-> 0, height |-> 0]
NoOptions == [mimeType |-> "none", videoBitsPerSecond |-> 0]

-----------------------------------------------------------------------------
(* Helpers *)

\* A state setter: React drops updates of an unmounted component, whose
\* state is gone (Unmount leaves the initial values in its place).
SetState(new, old) == IF mounted THEN new ELSE old

Range(s) == {s[i] : i \in 1..Len(s)}

NoCall == [kind |-> "none"]

Step(op, call, a, b) == [op |-> op, call |-> call, a |-> a, b |-> b]

Flip(m) == IF m = "user" THEN "environment" ELSE "user"

-----------------------------------------------------------------------------
(* Pure functions of the component *)

\* getVideoConstraints, lines 190-208.
getVideoConstraints(fm, q) ==
  [facingMode |-> fm,
   width |-> IF q = "1080p" THEN 1920 ELSE IF q = "720p" THEN 1280 ELSE 640,
   height |-> IF q = "1080p" THEN 1080 ELSE IF q = "720p" THEN 720 ELSE 480]

\* The options without the fallback of lines 504-506.
recorderOptionsPreferred(q, supported) ==
  [mimeType |-> "video/webm;codecs=vp9,opus",
   videoBitsPerSecond |-> IF q = "1080p" THEN 5000000
                          ELSE IF q = "720p" THEN 2500000 ELSE 1000000]

\* The options of new MediaRecorder, lines 494-506: supported is the answer
\* of MediaRecorder.isTypeSupported for the preferred mimeType.
recorderOptions(q, supported) ==
  [mimeType |-> IF supported THEN "video/webm;codecs=vp9,opus"
                             ELSE "video/webm",
   videoBitsPerSecond |-> IF q = "1080p" THEN 5000000
                          ELSE IF q = "720p" THEN 2500000 ELSE 1000000]

\* String.prototype.trim on a string kept as a sequence of pieces, where a
\* piece is either one blank or a term without blanks.
RECURSIVE TrimStart(_)
TrimStart(s) ==
  IF s # <<>> /\ Head(s) = " " THEN TrimStart(Tail(s)) ELSE s

RECURSIVE TrimEnd(_)
TrimEnd(s) ==
  IF s # <<>> /\ s[Len(s)] = " " THEN TrimEnd(SubSeq(s, 1, Len(s) - 1)) ELSE s

Trim(s) == TrimEnd(TrimStart(s))

\* The pieces joined into one string.
RECURSIVE Join(_)
Join(s) == IF s = <<>> THEN "" ELSE Head(s) \o Join(Tail(s))

\* applyFilters without the trim of line 229.
applyFiltersUntrimmed(f, b, c, s) ==
  LET s0 == <<>>
      s1 == IF f # "none" THEN s0 \o <<f, " ">> ELSE s0
      s2 == IF b # DefaultLevel
              THEN s1 \o <<"brightness(" \o ToString(b) \o "%)", " ">> ELSE s1
      s3 == IF c # DefaultLevel
              THEN s2 \o <<"contrast(" \o ToString(c) \o "%)", " ">> ELSE s2
      s4 == IF s # DefaultLevel
              THEN s3 \o <<"saturate(" \o ToString(s) \o "%)", " ">> ELSE s3
      untrimmed == Join(s4)
  IN IF untrimmed = "" THEN "none" ELSE untrimmed

\* applyFilters, lines 210-230.
applyFilters(f, b, c, s) ==
  LET s0 == <<>>
      s1 == IF f # "none" THEN s0 \o <<f, " ">> ELSE s0
      s2 == IF b # DefaultLevel
              THEN s1 \o <<"brightness(" \o ToString(b) \o "%)", " ">> ELSE s1
      s3 == IF c # DefaultLevel
              THEN s2 \o <<"contrast(" \o ToString(c) \o "%)", " ">> ELSE s2
      s4 == IF s # DefaultLevel
              THEN s3 \o <<"saturate(" \o ToString(s) \o "%)", " ">> ELSE s3
      trimmed == Join(Trim(s4))
  IN IF trimmed = "" THEN "none" ELSE trimmed

\* addRecordedChunk without the registry deletions of lines 184-186.
addRecordedChunkKeepsRegistry(buf, reg, chunk) ==
  LET pushed == Append(buf, chunk)
      added == reg \cup {chunk}
  IN IF Len(pushed) > ChunkLimit
       THEN [buf |-> SubSeq(pushed, TrimCount + 1, Len(pushed)),
             reg |-> added]
       ELSE [buf |-> pushed, reg |-> added]

\* addRecordedChunk, lines 177-188: the buffer and the registry afterwards.
addRecordedChunk(buf, reg, chunk) ==
  LET pushed == Append(buf, chunk)
      added == reg \cup {chunk}
  IN IF Len(pushed) > ChunkLimit
       THEN [buf |-> SubSeq(pushed, TrimCount + 1, Len(pushed)),
             reg |-> added \ Range(SubSeq(pushed, 1, TrimCount))]
       ELSE [buf |-> pushed, reg |-> added]

\* recorder.ondataavailable without the size test of line 512.
ondataavailableKeepsEmpty(buf, reg, chunk) ==
  addRecordedChunk(buf, reg, chunk)

\* recorder.ondataavailable, lines 511-515.
ondataavailable(buf, reg, chunk) ==
  IF chunk.size > 0 THEN addRecordedChunk(buf, reg, chunk)
                    ELSE [buf |-> buf, reg |-> reg]

\* Blob.size of new Blob(chunks), line 519.
RECURSIVE BlobSize(_)
BlobSize(chunks) ==
  IF chunks = <<>> THEN 0 ELSE Head(chunks).size + BlobSize(Tail(chunks))

\* Leaving every track live.
StopTracksNever(liveSet, ref) == liveSet

\* stream.getTracks().forEach(track => track.stop()), lines 469 and 565.
StopTracks(liveSet, ref) == IF ref # Null THEN liveSet \ {ref} ELSE liveSet

\* cancelAnimationFrame(animationFrameRef.current), lines 142-144, 471-473.
CancelFrame(pending, ref) ==
  IF ref # Null
    THEN {d \in pending : ~(d.phase = "frame" /\ d.id = ref)}
    ELSE pending

\* clearInterval(recordingIntervalRef.current), lines 145-147, 560-562.
ClearInterval(active, ref) == IF ref # Null THEN active \ {ref} ELSE active

-----------------------------------------------------------------------------
(* Initial state: the component just mounted (useEffect, lines 123-139).   *)
(* createVideoWorker has created one object URL for the worker script.     *)

Settings ==
  /\ filter = "none"
  /\ brightness = DefaultLevel
  /\ contrast = DefaultLevel
  /\ saturation = DefaultLevel
  /\ videoQuality = "1080p"
  /\ filterString = ""

Mounted ==
  /\ mounted = TRUE
  /\ isRecording = FALSE
  /\ videoUrl = Null
  /\ facingMode = "user"
  /\ isPreviewing = FALSE
  /\ isLoading = FALSE
  /\ error = NoError
  /\ recordingTime = 0
  /\ videoSize = NoSize
  /\ mediaRecorderRef = Null
  /\ videoStreamRef = Null
  /\ recordedChunks = <<>>
  /\ animationFrameRef = Null
  /\ recordingIntervalRef = Null
  /\ listeners = EmptyBag
  /\ draws = {}
  /\ metadataDue = FALSE
  /\ mmChunks = {}
  /\ mmUrls = {}
  /\ live = {}
  /\ nRequests = 0
  /\ lastRequest = NoRequest
  /\ lastOptions = NoOptions
  /\ recorders = <<>>
  /\ intervals = {}
  /\ nUrls = WorkerUrl
  /\ blobs = <<>>
  /\ revoked = {}
  /\ nChunks = 0
  /\ tasks = EmptyBag
  /\ timers = EmptyBag
  /\ last = Step("mount", NoCall, "none", "none")

Init == Settings /\ Mounted

-----------------------------------------------------------------------------
(* startPreview, lines 248-465 *)

\* A call suspended at its getUserMedia.  n counts the requests its
\* startPreview invocation has issued; fm and ip are the facingMode and
\* isPreviewing of the render whose closure runs.
NewTask(kind, fm, ip, n) ==
  [kind |-> kind, pc |-> "gum", fm |-> fm, ip |-> ip, n |-> n,
   err |-> "none", at |-> "none", cam |-> "none"]

Put(bag, x) == bag (+) SetToBag({x})
Take(bag, x) == bag (-) SetToBag({x})

\* The handle of a stream getUserMedia hands out: one no live stream and no
\* reference of the component is using.
NewStream ==
  CHOOSE s \in 1..(Cardinality(live) + 2) : s \notin live \cup {videoStreamRef}

\* Lines 248-256: up to the first await; the request carries the constraints
\* of the closure's getVideoConstraints.  limit bounds the requests made.
StartPreview(fm, ip, op, call, limit) ==
  /\ nRequests < limit
  /\ isLoading' = SetState(TRUE, isLoading)
  /\ error' = SetState(NoError, error)
  /\ nRequests' = nRequests + 1
  /\ lastRequest' = getVideoConstraints(fm, videoQuality)
  /\ tasks' = Put(tasks, NewTask("preview", fm, ip, 1))
  /\ last' = Step(op, call, "none", "none")

\* The Start Preview button, lines 667-671.
ClickStartPreview(limit) ==
  /\ mounted /\ ~isPreviewing /\ ~isRecording /\ ~isLoading
  /\ StartPreview(facingMode, isPreviewing, "startPreview", NoCall, limit)
  /\ UNCHANGED <<mounted, isRecording, videoUrl, facingMode, isPreviewing,
                 recordingTime, videoSize, filterVars, refVars, mmVars, draws,
                 metadataDue, live, lastOptions, recorders, intervals, nUrls,
                 blobs, revoked, nChunks, timers>>

\* getUserMedia resolves for startPreview or its retry: lines 258-263 and
\* 368-374.  After unmount videoRef.current is null, so the assignment of
\* srcObject throws once the stream is stored and the call ends in its catch.
PreviewAcquired(t) ==
  LET s == NewStream
  IN /\ t.kind \in {"preview", "retry"} /\ t.pc = "gum"
     /\ live' = live \cup {s}
     /\ videoStreamRef' = s
     /\ isPreviewing' = SetState(TRUE, isPreviewing)
     /\ error' = IF t.kind = "retry" THEN SetState(NoError, error) ELSE error
     /\ tasks' = IF mounted
                   THEN Put(Take(tasks, t), [t EXCEPT !.pc = "play"])
                   ELSE Take(tasks, t)
     /\ metadataDue' = IF mounted THEN TRUE ELSE metadataDue
     /\ last' = Step("acquired", t, s, "none")
     /\ UNCHANGED <<mounted, isRecording, videoUrl, facingMode,
                    isLoading, recordingTime, videoSize, filterVars,
                    mediaRecorderRef, recordedChunks, animationFrameRef,
                    recordingIntervalRef, listeners, mmVars, draws, nRequests,
                    lastRequest, lastOptions, recorders, intervals, nUrls,
                    blobs, revoked, nChunks, timers>>

\* video.play() resolves: the loadedmetadata listener is added (lines
\* 332-334, 442-444); startPreview then runs its finally (line 463).
PreviewPlaying(t) ==
  /\ t.kind \in {"preview", "retry"} /\ t.pc = "play"
  /\ listeners' = Put(listeners, t.ip)
  /\ last' = Step("playing", t, "none", "none")
  /\ isLoading' = IF t.kind = "preview" THEN SetState(FALSE, isLoading)
                                        ELSE isLoading
  /\ tasks' = Take(tasks, t)
  /\ UNCHANGED <<mounted, isRecording, videoUrl, facingMode, isPreviewing,
                 error, recordingTime, videoSize, filterVars,
                 mediaRecorderRef, videoStreamRef, recordedChunks,
                 animationFrameRef, recordingIntervalRef, mmVars, hostVars,
                 timers>>

\* The test of lines 339-342 on the name of the caught error.
IsPermissionDenial(e) == e \in PermissionDenial

\* The first attempt throws e (getUserMedia or play rejects): the catch of
\* lines 335-461.  A permission denial goes on to the permission queries,
\* any other kind sets the message and ends in the finally.
PreviewFailed(t, e) ==
  /\ t.kind = "preview" /\ t.pc \in {"gum", "play"}
  /\ IF IsPermissionDenial(e)
       THEN /\ tasks' = Put(Take(tasks, t),
                           [t EXCEPT !.pc = "permissions", !.err = e,
                                     !.at = t.pc])
            /\ UNCHANGED <<error, isLoading>>
       ELSE /\ tasks' = Take(tasks, t)
            /\ error' = SetState(ErrPreview, error)
            /\ isLoading' = SetState(FALSE, isLoading)
  /\ last' = Step("previewFailed", t, e, "none")
  /\ UNCHANGED <<mounted, isRecording, videoUrl, facingMode, isPreviewing,
                 recordingTime, videoSize, filterVars, refVars, mmVars,
                 hostVars, timers>>

\* The permission check without the test of lines 352-355.
PermissionVerdictRetries(cam, mic) ==
  IF cam = "reject" \/ mic = "reject" THEN "checkFailed" ELSE "retry"

\* What the permission check decides, lines 352-452 and 453-458: a message
\* to set, or the retry to schedule.
PermissionVerdict(cam, mic) ==
  IF cam = "reject" \/ mic = "reject" THEN "checkFailed"
  ELSE IF cam = "denied" \/ mic = "denied" THEN "denied"
  ELSE "retry"

\* The 1 s timer of lines 361-451.
RetryTimerOf(t) ==
  [kind |-> "retry", fm |-> t.fm, ip |-> t.ip, n |-> t.n, target |-> "none"]

\* The check of lines 352-458 on the answers cam and mic of the two queries
\* ("reject" for a query that rejected, "none" for one never asked), and
\* the finally of line 463, which ends the invocation.
PermissionCheck(t, cam, mic) ==
  LET verdict == PermissionVerdict(cam, mic)
  IN /\ t.kind = "preview" /\ t.pc \in {"permissions", "microphone"}
     /\ tasks' = Take(tasks, t)
     /\ error' = IF verdict = "checkFailed" THEN SetState(ErrPermCheck, error)
                 ELSE IF verdict = "denied" THEN SetState(ErrDenied, error)
                 ELSE error
     /\ timers' = IF verdict = "retry" THEN Put(timers, RetryTimerOf(t))
                                       ELSE timers
     /\ isLoading' = SetState(FALSE, isLoading)
     /\ last' = Step("permissionCheck", t, cam, mic)
     /\ UNCHANGED <<mounted, isRecording, videoUrl, facingMode, isPreviewing,
                    recordingTime, videoSize, filterVars, refVars, mmVars,
                    hostVars>>

\* The camera query of lines 345-347 settles.  When it rejects, the catch
\* of lines 453-458 sets its message and the microphone is never asked;
\* otherwise the call keeps the answer and suspends again at the await of
\* line 348, and any other handler may run before the microphone answers.
CameraQuery(t, cam) ==
  /\ t.kind = "preview" /\ t.pc = "permissions"
  /\ IF cam = "reject"
       THEN PermissionCheck(t, cam, "none")
       ELSE /\ tasks' = Put(Take(tasks, t),
                           [t EXCEPT !.pc = "microphone", !.cam = cam])
            /\ last' = Step("cameraQuery", t, cam, "none")
            /\ UNCHANGED <<compVars, filterVars, refVars, mmVars, hostVars,
                           timers>>

\* The microphone query of lines 348-350 settles: the check is made on the
\* two answers.
MicrophoneQuery(t, mic) ==
  /\ t.kind = "preview" /\ t.pc = "microphone"
  /\ PermissionCheck(t, t.cam, mic)

\* The 1 s timer fires: the retry issues its request, lines 361-366.
RetryTimer(t) ==
  /\ t.kind = "retry"
  /\ nRequests < MaxRequests
  /\ nRequests' = nRequests + 1
  /\ lastRequest' = getVideoConstraints(t.fm, videoQuality)
  /\ timers' = Take(timers, t)
  /\ tasks' = Put(tasks, NewTask("retry", t.fm, t.ip, t.n + 1))
  /\ last' = Step("retryTimer", t, "none", "none")
  /\ UNCHANGED <<compVars, filterVars, refVars, mmVars, draws, metadataDue,
                 live, lastOptions, recorders, intervals, nUrls, blobs,
                 revoked, nChunks>>

\* The retry throws (getUserMedia or play rejects): lines 445-450.
RetryFailed(t, e) ==
  /\ t.kind = "retry" /\ t.pc \in {"gum", "play"}
  /\ tasks' = Take(tasks, t)
  /\ error' = SetState(ErrRetry, error)
  /\ last' = Step("retryFailed", t, e, "none")
  /\ UNCHANGED <<mounted, isRecording, videoUrl, facingMode, isPreviewing,
                 isLoading, recordingTime, videoSize, filterVars, refVars,
                 mmVars, hostVars, timers>>

-----------------------------------------------------------------------------
(* The draw loop, lines 265-334 (and its copy in the retry, 377-444).      *)
(* The video element fires loadedmetadata for the stream assigned to it;   *)
(* every listener added so far (none is ever removed) then calls the draw  *)
(* of the startPreview call that added it.                                 *)

\* What video.videoWidth and video.videoHeight report when draw looks
\* (line 266): no dimensions yet, or valid ones.
Dimensions == {"none", "valid"}

\* requestAnimationFrame hands out an id no pending callback and no ref holds.
NewFrame(pending, ref) ==
  CHOOSE n \in 1..(Cardinality(pending) + 2) :
    /\ n # ref
    /\ \A d \in pending : d.id # n
    /\ \A m \in 1..(n - 1) : m = ref \/ \E d \in pending : d.id = m

\* draw, lines 265-330.  Without dimensions it asks for the next animation
\* frame and remembers its id (lines 266-269).  With dimensions it goes on to
\* canvas.width (lines 275-278); canvasRef (line 115) is attached to no
\* element of the rendered JSX (lines 610-829), so canvasRef.current is null
\* and draw throws: nothing is drawn and nothing is scheduled.
draw(pending, ref, dims) ==
  IF dims = "none"
    THEN LET id == NewFrame(pending, ref)
         IN [draws |-> pending \cup {[phase |-> "frame", id |-> id]},
             animationFrameRef |-> id]
    ELSE [draws |-> pending, animationFrameRef |-> ref]

\* The loadedmetadata listeners, lines 332-334, one after the other.
RECURSIVE drawEach(_, _, _, _)
drawEach(pending, ref, k, dims) ==
  IF k = 0
    THEN [draws |-> pending, animationFrameRef |-> ref]
    ELSE LET one == draw(pending, ref, dims)
         IN drawEach(one.draws, one.animationFrameRef, k - 1, dims)

\* The video element fires loadedmetadata.
LoadedMetadata(dims) ==
  LET all == drawEach(draws, animationFrameRef, BagCardinality(listeners),
                      dims)
  IN /\ metadataDue
     /\ metadataDue' = FALSE
     /\ draws' = all.draws
     /\ animationFrameRef' = all.animationFrameRef
     /\ last' = Step("loadedmetadata", NoCall, dims,
                     BagCardinality(listeners))
     /\ UNCHANGED <<compVars, filterVars, mediaRecorderRef,
                    videoStreamRef, recordedChunks, recordingIntervalRef,
                    listeners, mmVars, live, nRequests, lastRequest,
                    lastOptions, recorders, intervals, nUrls, blobs, revoked,
                    nChunks, tasks, timers>>

\* The host runs a pending animation frame callback: draw again.
DrawFrame(d, dims) ==
  LET one == draw(draws \ {d}, animationFrameRef, dims)
  IN /\ d \in draws /\ d.phase = "frame"
     /\ draws' = one.draws
     /\ animationFrameRef' = one.animationFrameRef
     /\ last' = Step("frame", NoCall, dims, d.id)
     /\ UNCHANGED <<compVars, filterVars, mediaRecorderRef,
                    videoStreamRef, recordedChunks, recordingIntervalRef,
                    listeners, mmVars, metadataDue, live, nRequests,
                    lastRequest, lastOptions, recorders, intervals, nUrls,
                    blobs, revoked, nChunks, tasks, timers>>

-----------------------------------------------------------------------------
(* stopPreview, lines 467-475, and switchCamera, lines 589-600 *)

\* The Stop Preview button, lines 672-674.
ClickStopPreview ==
  /\ mounted /\ isPreviewing /\ ~isRecording
  /\ live' = StopTracks(live, videoStreamRef)
  /\ draws' = CancelFrame(draws, animationFrameRef)
  /\ isPreviewing' = FALSE
  /\ last' = Step("stopPreview", NoCall, "none", "none")
  /\ UNCHANGED <<mounted, isRecording, videoUrl, facingMode, isLoading,
                 error, recordingTime, videoSize, filterVars, refVars, mmVars,
                 metadataDue, nRequests, lastRequest, lastOptions, recorders,
                 intervals, nUrls, blobs, revoked, nChunks, tasks, timers>>

\* The 100 ms timer of switchCamera, lines 596-598: it calls the startPreview
\* of the render in which switchCamera ran, which still holds that render's
\* facingMode and isPreviewing.  target is the newFacingMode of line 590.
SwitchTimerOf(fm, ip, newFacingMode) ==
  [kind |-> "switch", fm |-> fm, ip |-> ip, n |-> 0,
   target |-> newFacingMode]

\* The Switch Camera button, line 686.
ClickSwitchCamera ==
  LET newFacingMode == Flip(facingMode)
  IN /\ mounted /\ ~isRecording /\ ~isLoading
     /\ facingMode' = newFacingMode
     /\ IF isPreviewing
          THEN /\ live' = StopTracks(live, videoStreamRef)
               /\ draws' = CancelFrame(draws, animationFrameRef)
               /\ isPreviewing' = FALSE
               /\ timers' = Put(timers, SwitchTimerOf(facingMode,
                                                      isPreviewing,
                                                      newFacingMode))
          ELSE UNCHANGED <<live, draws, isPreviewing, timers>>
     /\ last' = Step("switchCamera", NoCall, "none", "none")
     /\ UNCHANGED <<mounted, isRecording, videoUrl, isLoading, error,
                    recordingTime, videoSize, filterVars, refVars, mmVars,
                    metadataDue, nRequests, lastRequest, lastOptions,
                    recorders, intervals, nUrls, blobs, revoked, nChunks,
                    tasks>>

\* The 100 ms timer fires: startPreview() of the captured render.
SwitchTimer(t, limit) ==
  /\ t.kind = "switch"
  /\ StartPreview(t.fm, t.ip, "switchTimer", t, limit)
  /\ timers' = Take(timers, t)
  /\ UNCHANGED <<mounted, isRecording, videoUrl, facingMode, isPreviewing,
                 recordingTime, videoSize, filterVars, refVars, mmVars, draws,
                 metadataDue, live, lastOptions, recorders, intervals, nUrls,
                 blobs, revoked, nChunks>>

-----------------------------------------------------------------------------
(* startRecording, lines 477-550, and stopRecording, lines 552-569 *)

RecorderOutcomes == {"ok", "constructorThrows", "startThrows"}

\* A MediaRecorder: its state, whether its stop event is still to come, and
\* the number of non-empty chunks it has emitted.
NewRecorder(state) == [state |-> state, stopping |-> FALSE, emitted |-> 0]

\* Lines 494-543 going on to the timer whatever the encoder did.
SetupRecorderAlwaysStarts(outcome, supported) ==
  LET r == Len(recorders) + 1
  IN /\ mediaRecorderRef' = r
     /\ lastOptions' = recorderOptions(videoQuality, supported)
     /\ recordedChunks' = <<>>
     /\ recorders' = Append(recorders, NewRecorder("recording"))
     /\ isRecording' = SetState(TRUE, isRecording)
     /\ intervals' = intervals \cup {r}
     /\ recordingIntervalRef' = r

\* Lines 494-543 on the stream in hand.  supported is the host's answer to
\* isTypeSupported (line 504).  new MediaRecorder or start() may throw; what
\* was assigned before the throw stays assigned.
SetupRecorder(outcome, supported) ==
  LET r == Len(recorders) + 1
  IN IF outcome = "constructorThrows"
       THEN UNCHANGED <<recorders, mediaRecorderRef, recordedChunks,
                        isRecording, intervals, recordingIntervalRef,
                        lastOptions>>
       ELSE /\ mediaRecorderRef' = r
            /\ lastOptions' = recorderOptions(videoQuality, supported)
            /\ recordedChunks' = <<>>
            /\ IF outcome = "ok"
                 THEN /\ recorders' = Append(recorders,
                                             NewRecorder("recording"))
                      /\ isRecording' = SetState(TRUE, isRecording)
                      /\ intervals' = intervals \cup {r}
                      /\ recordingIntervalRef' = r
                 ELSE /\ recorders' = Append(recorders,
                                             NewRecorder("inactive"))
                      /\ UNCHANGED <<isRecording, intervals,
                                     recordingIntervalRef>>

\* The number of startRecording calls waiting for their stream (suspended
\* at lines 487-490), whichever render each of them belongs to.
RecordTasks ==
  LET waiting == {t \in BagToSet(tasks) : t.kind = "record"}
  IN BagCardinality([t \in waiting |-> CopiesIn(t, tasks)])

\* The Start Recording button, lines 676-684.  With a preview running the
\* stream is reused and the whole function runs without an await.  limit
\* bounds the requests made, supported is the host's isTypeSupported.
ClickStartRecording(limit, supported) ==
  /\ mounted /\ ~isRecording /\ ~isLoading
  /\ Len(recorders) + RecordTasks < MaxRecorders
  /\ recordingTime' = 0
  /\ IF isPreviewing /\ videoStreamRef # Null
       THEN \E outcome \in RecorderOutcomes :
              /\ SetupRecorder(outcome, supported)
              /\ error' = IF outcome = "ok" THEN NoError ELSE ErrRecording
              /\ isLoading' = FALSE
              /\ last' = Step("startRecording", NoCall, outcome, supported)
              /\ UNCHANGED <<nRequests, lastRequest, tasks>>
       ELSE /\ nRequests < limit
            /\ nRequests' = nRequests + 1
            /\ lastRequest' = getVideoConstraints(facingMode, videoQuality)
            /\ tasks' = Put(tasks, NewTask("record", facingMode,
                                            isPreviewing, 1))
            /\ error' = NoError
            /\ isLoading' = TRUE
            /\ last' = Step("startRecording", NoCall, "none", "none")
            /\ UNCHANGED <<recorders, mediaRecorderRef, recordedChunks,
                           isRecording, intervals, recordingIntervalRef,
                           lastOptions>>
  /\ UNCHANGED <<mounted, videoUrl, facingMode, isPreviewing, videoSize,
                 filterVars, videoStreamRef, animationFrameRef, listeners,
                 mmVars, draws, metadataDue, live, nUrls, blobs, revoked,
                 nChunks, timers>>

\* getUserMedia resolves for startRecording, lines 487-543, 547-549.
RecordAcquired(t, outcome, supported) ==
  LET s == NewStream
  IN /\ t.kind = "record" /\ t.pc = "gum"
     /\ live' = live \cup {s}
     /\ videoStreamRef' = s
     /\ SetupRecorder(outcome, supported)
     /\ error' = IF outcome = "ok" THEN error
                                   ELSE SetState(ErrRecording, error)
     /\ isLoading' = SetState(FALSE, isLoading)
     /\ tasks' = Take(tasks, t)
     /\ last' = Step("recordAcquired", t, supported, outcome)
     /\ UNCHANGED <<mounted, videoUrl, facingMode, isPreviewing,
                    recordingTime, videoSize, filterVars, animationFrameRef,
                    listeners, mmVars, draws, metadataDue, nRequests,
                    lastRequest, nUrls, blobs, revoked, nChunks, timers>>

\* The catch of startRecording without the finally of lines 547-549.
RecordFailedKeepsLoading(t) ==
  /\ t.kind = "record" /\ t.pc = "gum"
  /\ tasks' = Take(tasks, t)
  /\ error' = SetState(ErrRecording, error)
  /\ last' = Step("recordFailed", t, "none", "none")
  /\ UNCHANGED <<mounted, isRecording, videoUrl, facingMode, isPreviewing,
                 isLoading, recordingTime, videoSize, filterVars, refVars,
                 mmVars, hostVars, timers>>

\* getUserMedia rejects for startRecording, lines 544-549.
RecordFailed(t) ==
  /\ t.kind = "record" /\ t.pc = "gum"
  /\ tasks' = Take(tasks, t)
  /\ error' = SetState(ErrRecording, error)
  /\ isLoading' = SetState(FALSE, isLoading)
  /\ last' = Step("recordFailed", t, "none", "none")
  /\ UNCHANGED <<mounted, isRecording, videoUrl, facingMode, isPreviewing,
                 recordingTime, videoSize, filterVars, refVars, mmVars,
                 hostVars, timers>>

\* recorder.stop(), lines 553-558: the recorder turns inactive at once and
\* its last dataavailable and its stop event are queued.
StopRecorder(rs, ref) ==
  IF ref # Null /\ rs[ref].state = "recording"
    THEN [rs EXCEPT ![ref].state = "inactive", ![ref].stopping = TRUE]
    ELSE rs

\* The Stop Recording button, lines 676-679.
ClickStopRecording ==
  /\ mounted /\ isRecording
  /\ recorders' = StopRecorder(recorders, mediaRecorderRef)
  /\ intervals' = ClearInterval(intervals, recordingIntervalRef)
  /\ live' = IF ~isPreviewing THEN StopTracks(live, videoStreamRef) ELSE live
  /\ isRecording' = FALSE
  /\ last' = Step("stopRecording", NoCall, "none", "none")
  /\ UNCHANGED <<mounted, videoUrl, facingMode, isPreviewing, isLoading,
                 error, recordingTime, videoSize, filterVars, refVars, mmVars,
                 draws, metadataDue, nRequests, lastRequest, lastOptions,
                 nUrls, blobs, revoked, nChunks, tasks, timers>>

\* The callback of recording interval i, lines 541-543, once a second while
\* the interval is active.  After unmount the update is dropped.
Tick(i) ==
  /\ i \in intervals
  /\ mounted /\ recordingTime < MaxTime
  /\ recordingTime' = recordingTime + 1
  /\ last' = Step("tick", NoCall, i, "none")
  /\ UNCHANGED <<mounted, isRecording, videoUrl, facingMode, isPreviewing,
                 isLoading, error, videoSize, filterVars, refVars, mmVars,
                 hostVars, tasks, timers>>

\* The event.data of recorder r: a chunk of the given size, with the
\* identity of a fresh Blob.
Chunk(sz, r) ==
  [id |-> IF sz > 0 THEN nChunks + 1 ELSE 0, size |-> sz, by |-> r]

\* The recorders after r emitted a chunk of the given size.
Emitted(rs, r, sz) ==
  IF sz > 0 THEN [rs EXCEPT ![r].emitted = rs[r].emitted + 1] ELSE rs

\* The periodic dataavailable of a recording recorder, lines 511-515.
DataAvailable(r, sz, limit) ==
  LET after == ondataavailable(recordedChunks, mmChunks, Chunk(sz, r))
  IN /\ recorders[r].state = "recording"
     /\ nChunks < limit
     /\ recorders' = Emitted(recorders, r, sz)
     /\ recordedChunks' = after.buf
     /\ mmChunks' = after.reg
     /\ nChunks' = IF sz > 0 THEN nChunks + 1 ELSE nChunks
     /\ last' = Step("dataavailable", NoCall, r, sz)
     /\ UNCHANGED <<compVars, filterVars, mediaRecorderRef,
                    videoStreamRef, animationFrameRef, recordingIntervalRef,
                    listeners, mmUrls, draws, metadataDue, live, nRequests,
                    lastRequest, lastOptions, intervals, nUrls, blobs,
                    revoked, tasks, timers>>

\* What URL.createObjectURL does at line 520: it answers with a URL, or it
\* throws and the catch of lines 532-534 runs.
UrlOutcomes == {"ok", "throws"}

\* recorder.onstop building the blob and neither publishing it nor setting
\* a message.
onstopUnpublished(buf, url, outcome) ==
  [blob |-> buf, threw |-> FALSE, videoUrl |-> Null, videoSize |-> NoSize,
   error |-> NoError, recordedChunks |-> <<>>]

\* recorder.onstop, lines 517-535, on the buffer as it stands.  The blob is
\* built (line 519).  When the URL is created the try runs to its end: the
\* URL is registered, videoUrl and videoSize are set and the buffer is
\* cleared (line 526); error is not assigned.  When createObjectURL throws,
\* the catch sets the message of line 533, videoUrl and videoSize are not
\* assigned and the buffer keeps its chunks.  threw tells which of the two
\* groups of fields is assigned.
onstop(buf, url, outcome) ==
  IF outcome = "throws"
    THEN [blob |-> buf, threw |-> TRUE, videoUrl |-> Null,
          videoSize |-> NoSize, error |-> ErrProcess, recordedChunks |-> buf]
    ELSE [blob |-> buf, threw |-> FALSE, videoUrl |-> url,
          videoSize |-> BlobSize(buf), error |-> NoError,
          recordedChunks |-> <<>>]

\* The stop of recorder r is delivered: its last dataavailable, then onstop
\* with the given outcome of createObjectURL.  No URL exists after a throw,
\* so none is counted or registered.
RecorderStopped(r, sz, outcome) ==
  LET after == ondataavailable(recordedChunks, mmChunks, Chunk(sz, r))
      url == nUrls + 1
      done == onstop(after.buf, url, outcome)
  IN /\ recorders[r].stopping
     /\ sz > 0 => nChunks < MaxChunks
     /\ recorders' = [Emitted(recorders, r, sz) EXCEPT ![r].stopping = FALSE]
     /\ blobs' = Append(blobs, [by |-> r, chunks |-> done.blob])
     /\ nChunks' = IF sz > 0 THEN nChunks + 1 ELSE nChunks
     /\ mmChunks' = after.reg
     /\ recordedChunks' = done.recordedChunks
     /\ IF done.threw
          THEN /\ error' = SetState(done.error, error)
               /\ last' = Step("onstopCaught", NoCall, r, sz)
               /\ UNCHANGED <<nUrls, mmUrls, videoUrl, videoSize>>
          ELSE /\ nUrls' = url
               /\ mmUrls' = mmUrls \cup {url}
               /\ videoUrl' = SetState(done.videoUrl, videoUrl)
               /\ videoSize' = SetState(done.videoSize, videoSize)
               /\ last' = Step("onstop", NoCall, r, sz)
               /\ UNCHANGED error
     /\ UNCHANGED <<mounted, isRecording, facingMode, isPreviewing,
                    isLoading, recordingTime, filterVars,
                    mediaRecorderRef, videoStreamRef, animationFrameRef,
                    recordingIntervalRef, listeners, draws, metadataDue, live,
                    nRequests, lastRequest, lastOptions, intervals, revoked,
                    tasks, timers>>

-----------------------------------------------------------------------------
(* downloadVideo, lines 571-587 *)

DownloadOutcomes == {"ok", "throws"}

\* The Download Video button, lines 797-799, rendered while videoUrl is set:
\* the whole function runs without an await; the DOM calls of lines 576-581
\* may throw.
ClickDownloadVideo(outcome) ==
  /\ mounted /\ videoUrl # Null /\ ~isLoading
  /\ error' = IF outcome = "throws" THEN ErrDownload ELSE error
  /\ isLoading' = FALSE
  /\ last' = Step("downloadVideo", NoCall, outcome, "none")
  /\ UNCHANGED <<mounted, isRecording, videoUrl, facingMode, isPreviewing,
                 recordingTime, videoSize, filterVars, refVars, mmVars,
                 hostVars, tasks, timers>>

-----------------------------------------------------------------------------
(* Teardown: the effect cleanup, lines 141-152, with memoryManager.cleanup *)

\* memoryManager.cleanup, lines 76-91: the URLs revoked afterwards.  Each
\* registered URL is revoked in turn; a revokeObjectURL that throws is
\* caught and logged (lines 80-82) and the loop goes on, so the URLs of
\* failing stay unrevoked.  The registry is cleared all the same (line 84).
cleanup(revokedSet, urls, failing) == revokedSet \cup (urls \ failing)

\* The effect cleanup of lines 141-152; failing are the registered URLs
\* whose revokeObjectURL throws.
Unmount(failing) ==
  /\ mounted
  /\ failing \subseteq mmUrls
  /\ mounted' = FALSE
  /\ isRecording' = FALSE
  /\ videoUrl' = Null
  /\ facingMode' = "user"
  /\ isPreviewing' = FALSE
  /\ isLoading' = FALSE
  /\ error' = NoError
  /\ recordingTime' = 0
  /\ videoSize' = NoSize
  /\ draws' = CancelFrame(draws, animationFrameRef)
  /\ intervals' = ClearInterval(intervals, recordingIntervalRef)
  /\ revoked' = cleanup(revoked, mmUrls, failing)
  /\ mmUrls' = {}
  /\ mmChunks' = {}
  /\ last' = Step("unmount", NoCall, failing, "none")
  /\ UNCHANGED <<filterVars, refVars, metadataDue, live, nRequests,
                 lastRequest, lastOptions, recorders, nUrls, blobs, nChunks,
                 tasks, timers>>

-----------------------------------------------------------------------------
(* The component driven by its buttons and by the host's callbacks *)

PermissionOutcomes == PermissionStates \cup {"reject"}

Next ==
  \/ ClickStartPreview(MaxRequests)
  \/ ClickStopPreview
  \/ ClickSwitchCamera
  \/ \E sup \in BOOLEAN : ClickStartRecording(MaxRequests, sup)
  \/ ClickStopRecording
  \/ \E o \in DownloadOutcomes : ClickDownloadVideo(o)
  \/ \E failing \in SUBSET mmUrls : Unmount(failing)
  \/ \E t \in BagToSet(tasks) : PreviewAcquired(t)
  \/ \E t \in BagToSet(tasks) : PreviewPlaying(t)
  \/ \E t \in BagToSet(tasks), e \in ErrorKinds : PreviewFailed(t, e)
  \/ \E t \in BagToSet(tasks), cam \in PermissionOutcomes :
        CameraQuery(t, cam)
  \/ \E t \in BagToSet(tasks), mic \in PermissionOutcomes :
        MicrophoneQuery(t, mic)
  \/ \E t \in BagToSet(tasks), e \in ErrorKinds : RetryFailed(t, e)
  \/ \E t \in BagToSet(tasks), o \in RecorderOutcomes, sup \in BOOLEAN :
        RecordAcquired(t, o, sup)
  \/ \E t \in BagToSet(tasks) : RecordFailed(t)
  \/ \E t \in BagToSet(timers) : RetryTimer(t)
  \/ \E t \in BagToSet(timers) : SwitchTimer(t, MaxRequests)
  \/ \E r \in 1..Len(recorders), sz \in 0..MaxChunkSize :
        DataAvailable(r, sz, MaxChunks)
  \/ \E r \in 1..Len(recorders), sz \in 0..MaxChunkSize,
        o \in UrlOutcomes : RecorderStopped(r, sz, o)
  \/ \E i \in intervals : Tick(i)
  \/ \E dims \in Dimensions : LoadedMetadata(dims)
  \/ \E d \in draws, dims \in Dimensions : DrawFrame(d, dims)

Spec == Init /\ [][Next]_vars

-----------------------------------------------------------------------------
(* Parts of the component, each with the actions its properties are about. *)
(* Except in SpecEncoder the host supports the preferred recording type.   *)

-----------------------------------------------------------------------------
(* The preview alone: startPreview with its permission check and retry,    *)
(* stopPreview, switchCamera and unmount.                                  *)

NextPreview ==
  \/ ClickStartPreview(MaxRequests)
  \/ ClickStopPreview
  \/ ClickSwitchCamera
  \/ \E failing \in SUBSET mmUrls : Unmount(failing)
  \/ \E t \in BagToSet(tasks) : PreviewAcquired(t)
  \/ \E t \in BagToSet(tasks) : PreviewPlaying(t)
  \/ \E t \in BagToSet(tasks), e \in ErrorKinds : PreviewFailed(t, e)
  \/ \E t \in BagToSet(tasks), cam \in PermissionOutcomes :
        CameraQuery(t, cam)
  \/ \E t \in BagToSet(tasks), mic \in PermissionOutcomes :
        MicrophoneQuery(t, mic)
  \/ \E t \in BagToSet(tasks), e \in ErrorKinds : RetryFailed(t, e)
  \/ \E t \in BagToSet(timers) : RetryTimer(t)
  \/ \E t \in BagToSet(timers) : SwitchTimer(t, MaxRequests)

SpecPreview == Init /\ [][NextPreview]_vars

(* The recording, on a stream of its own or on the stream of a preview    *)
(* that started without failure: startRecording, the recorder's callbacks, *)
(* stopRecording, stopPreview and unmount.                                 *)

NextRecording ==
  \/ ClickStartPreview(MaxRequests)
  \/ ClickStopPreview
  \/ \E t \in BagToSet(tasks) : PreviewAcquired(t)
  \/ \E t \in BagToSet(tasks) : PreviewPlaying(t)
  \/ ClickStartRecording(MaxRequests, TRUE)
  \/ ClickStopRecording
  \/ \E failing \in SUBSET mmUrls : Unmount(failing)
  \/ \E t \in BagToSet(tasks), o \in RecorderOutcomes :
        RecordAcquired(t, o, TRUE)
  \/ \E t \in BagToSet(tasks) : RecordFailed(t)
  \/ \E r \in 1..Len(recorders), sz \in 0..MaxChunkSize :
        DataAvailable(r, sz, MaxChunks)
  \/ \E r \in 1..Len(recorders), sz \in 0..MaxChunkSize,
        o \in UrlOutcomes : RecorderStopped(r, sz, o)

SpecRecording == Init /\ [][NextRecording]_vars

\* The host delivers the stop event of recorder r: a MediaRecorder whose
\* stop() was called (line 557) fires dataavailable and then stop.
Delivered(r) ==
  /\ r \in 1..Len(recorders)
  /\ \E sz \in 0..MaxChunkSize, o \in UrlOutcomes :
        RecorderStopped(r, sz, o)

\* Recordings on their own stream: the Start and Stop Recording buttons, the
\* recorder's events and the unmount.
NextDelivery ==
  \/ ClickStartRecording(MaxRequests, TRUE)
  \/ ClickStopRecording
  \/ \E failing \in SUBSET mmUrls : Unmount(failing)
  \/ \E t \in BagToSet(tasks), o \in RecorderOutcomes :
        RecordAcquired(t, o, TRUE)
  \/ \E t \in BagToSet(tasks) : RecordFailed(t)
  \/ \E r \in 1..Len(recorders), sz \in 0..MaxChunkSize :
        DataAvailable(r, sz, MaxChunks)
  \/ \E r \in 1..Len(recorders), sz \in 0..MaxChunkSize,
        o \in UrlOutcomes : RecorderStopped(r, sz, o)

\* The recording with a host that does deliver every requested stop event.
SpecDelivery ==
  /\ Init /\ [][NextDelivery]_vars
  /\ \A r \in 1..MaxRecorders : WF_vars(Delivered(r))

-----------------------------------------------------------------------------
(* The encoder configuration: startRecording on its own stream or on the   *)
(* preview's, for every quality the settings offer (lines 703-705) and     *)
(* both answers of isTypeSupported.                                        *)

Qualities == {"480p", "720p", "1080p"}

InitEncoder ==
  /\ Mounted
  /\ filter = "none"
  /\ brightness = DefaultLevel
  /\ contrast = DefaultLevel
  /\ saturation = DefaultLevel
  /\ videoQuality \in Qualities
  /\ filterString = ""

NextEncoder ==
  \/ ClickStartPreview(MaxRequests)
  \/ \E t \in BagToSet(tasks) : PreviewAcquired(t)
  \/ \E t \in BagToSet(tasks) : PreviewPlaying(t)
  \/ \E sup \in BOOLEAN : ClickStartRecording(MaxRequests, sup)
  \/ \E t \in BagToSet(tasks), o \in RecorderOutcomes, sup \in BOOLEAN :
        RecordAcquired(t, o, sup)
  \/ ClickStopRecording
  \/ \E r \in 1..Len(recorders), o \in UrlOutcomes :
        RecorderStopped(r, 0, o)

SpecEncoder == InitEncoder /\ [][NextEncoder]_vars

-----------------------------------------------------------------------------
(* The recording timer: startRecording next to a switchCamera whose timer  *)
(* restarts the preview, the interval callback and stopRecording.  Two     *)
(* calls of startRecording overlap only after a preview was started and    *)
(* switched, which takes three getUserMedia requests.                      *)

NextTimer ==
  \/ ClickStartPreview(TimerRequests)
  \/ ClickSwitchCamera
  \/ ClickStartRecording(TimerRequests, TRUE)
  \/ ClickStopRecording
  \/ \E failing \in SUBSET mmUrls : Unmount(failing)
  \/ \E t \in BagToSet(tasks) : PreviewAcquired(t)
  \/ \E t \in BagToSet(tasks) : PreviewPlaying(t)
  \/ \E t \in BagToSet(tasks), o \in RecorderOutcomes :
        RecordAcquired(t, o, TRUE)
  \/ \E t \in BagToSet(timers) : SwitchTimer(t, TimerRequests)
  \/ \E i \in intervals : Tick(i)

SpecTimer == Init /\ [][NextTimer]_vars

-----------------------------------------------------------------------------
(* The preview with its draw loop: startPreview, stopPreview, switchCamera *)
(* and the video element's loadedmetadata and animation frame callbacks.   *)

NextDraw ==
  \/ ClickStartPreview(MaxRequests)
  \/ ClickStopPreview
  \/ ClickSwitchCamera
  \/ \E failing \in SUBSET mmUrls : Unmount(failing)
  \/ \E t \in BagToSet(tasks) : PreviewAcquired(t)
  \/ \E t \in BagToSet(tasks) : PreviewPlaying(t)
  \/ \E t \in BagToSet(timers) : SwitchTimer(t, MaxRequests)
  \/ \E dims \in Dimensions : LoadedMetadata(dims)
  \/ \E d \in draws, dims \in Dimensions : DrawFrame(d, dims)

SpecDraw == Init /\ [][NextDraw]_vars

(* The three functions that raise isLoading, startPreview, startRecording  *)
(* and downloadVideo, with every way each of them ends, the two stop       *)
(* buttons and unmount.                                                    *)

NextLoading ==
  \/ ClickStartPreview(MaxRequests)
  \/ ClickStopPreview
  \/ ClickStartRecording(MaxRequests, TRUE)
  \/ ClickStopRecording
  \/ \E o \in DownloadOutcomes : ClickDownloadVideo(o)
  \/ \E failing \in SUBSET mmUrls : Unmount(failing)
  \/ \E t \in BagToSet(tasks) : PreviewAcquired(t)
  \/ \E t \in BagToSet(tasks) : PreviewPlaying(t)
  \/ \E t \in BagToSet(tasks), e \in ErrorKinds : PreviewFailed(t, e)
  \/ \E t \in BagToSet(tasks), cam \in PermissionOutcomes :
        CameraQuery(t, cam)
  \/ \E t \in BagToSet(tasks), mic \in PermissionOutcomes :
        MicrophoneQuery(t, mic)
  \/ \E t \in BagToSet(tasks), e \in ErrorKinds : RetryFailed(t, e)
  \/ \E t \in BagToSet(tasks), o \in RecorderOutcomes :
        RecordAcquired(t, o, TRUE)
  \/ \E t \in BagToSet(tasks) : RecordFailed(t)
  \/ \E t \in BagToSet(timers) : RetryTimer(t)
  \/ \E r \in 1..Len(recorders), o \in UrlOutcomes :
        RecorderStopped(r, 0, o)

SpecLoading == Init /\ [][NextLoading]_vars

-----------------------------------------------------------------------------
(* The chunk buffer over a long recording: the component has started a     *)
(* recording on a stream of its own (startRecording, then its getUserMedia *)
(* resolved and the recorder started) and the recorder delivers chunks.    *)

RecordingStarted ==
  /\ Settings
  /\ mounted = TRUE
  /\ isRecording = TRUE
  /\ videoUrl = Null
  /\ facingMode = "user"
  /\ isPreviewing = FALSE
  /\ isLoading = FALSE
  /\ error = NoError
  /\ recordingTime = 0
  /\ videoSize = NoSize
  /\ mediaRecorderRef = 1
  /\ videoStreamRef = 1
  /\ recordedChunks = <<>>
  /\ animationFrameRef = Null
  /\ recordingIntervalRef = 1
  /\ listeners = EmptyBag
  /\ draws = {}
  /\ metadataDue = FALSE
  /\ mmChunks = {}
  /\ mmUrls = {}
  /\ live = {1}
  /\ nRequests = 1
  /\ lastRequest = getVideoConstraints("user", "1080p")
  /\ lastOptions = recorderOptions("1080p", TRUE)
  /\ recorders = <<NewRecorder("recording")>>
  /\ intervals = {1}
  /\ nUrls = WorkerUrl
  /\ blobs = <<>>
  /\ revoked = {}
  /\ nChunks = 0
  /\ tasks = EmptyBag
  /\ timers = EmptyBag
  /\ last = Step("recordAcquired", NewTask("record", "user", FALSE, 1),
                 TRUE, "ok")

\* The chunks of the long run: empty ones and ones of one size.
BufferChunkSizes == {0, 1}

NextBuffer ==
  \E r \in 1..Len(recorders), sz \in BufferChunkSizes :
    DataAvailable(r, sz, BufRunLen)

SpecBuffer == RecordingStarted /\ [][NextBuffer]_vars

-----------------------------------------------------------------------------
(* The filter expression applyFilters composes, over the settings the      *)
(* (disabled) settings panel offers, lines 709-752.                        *)

FilterOptions == {"none", "grayscale(100%)", "sepia(100%)", "invert(100%)",
                  "blur(2px)", "hue-rotate(90deg)"}
BrightnessLevels == {50, DefaultLevel, 200}
ContrastLevels == {50, DefaultLevel, 200}
SaturationLevels == {0, DefaultLevel, 200}

InitFilters ==
  /\ Mounted
  /\ filter \in FilterOptions
  /\ brightness \in BrightnessLevels
  /\ contrast \in ContrastLevels
  /\ saturation \in SaturationLevels
  /\ videoQuality = "1080p"
  /\ filterString = ""

\* A call of applyFilters, lines 210-230, with the settings of the render;
\* filterString keeps what it returns.  The component calls it only from
\* the draw loop (lines 305 and 417), behind the canvas the component does
\* not render, so the composition is exercised here on its own.
CallApplyFilters ==
  /\ filterString' = applyFilters(filter, brightness, contrast, saturation)
  /\ last' = Step("applyFilters", NoCall, "none", "none")
  /\ UNCHANGED <<compVars, filter, brightness, contrast, saturation,
                 videoQuality, refVars, mmVars, hostVars, tasks, timers>>

SpecFilters == InitFilters /\ [][CallApplyFilters]_vars

-----------------------------------------------------------------------------
(* Properties *)

\* C1: after any sequence of startPreview, startRecording, switchCamera,
\* stopPreview and stopRecording, also with an acquisition, a switch restart
\* or a permission retry pending, at most one acquired stream has live
\* tracks.
C1_OneLiveStream == Cardinality(live) <= 1

\* C2: an append that makes the buffer exceed 1000 chunks removes the oldest
\* 500 from the buffer and from the registry's chunk set, the remaining
\* chunks keep their arrival order with the new chunk last, and the buffer
\* never holds more than 1000 chunks after a data event.
C2_Compaction ==
  /\ [](Len(recordedChunks) <= ChunkLimit)
  /\ [][(last'.op = "dataavailable" /\ last'.b > 0)
          => LET n == Len(recordedChunks)
                 m == Len(recordedChunks')
                 drop == IF n + 1 > ChunkLimit THEN TrimCount ELSE 0
             IN /\ m = n + 1 - drop
                /\ \A k \in 1..(m - 1) :
                     recordedChunks'[k] = recordedChunks[k + drop]
                /\ recordedChunks'[m].id = nChunks'
                /\ recordedChunks'[m].size = last'.b
                /\ \A k \in 1..drop :
                     /\ recordedChunks[k] \notin Range(recordedChunks')
                     /\ recordedChunks[k] \notin mmChunks'
                /\ Range(recordedChunks') \subseteq mmChunks'
                /\ mmChunks' \subseteq mmChunks \cup {recordedChunks'[m]}]_vars

\* C2 witness: the 1001st chunk arrived and the buffer was cut to 501.
C2_Compacted ==
  /\ last.op = "dataavailable"
  /\ nChunks = ChunkLimit + 1
  /\ Len(recordedChunks) = ChunkLimit + 1 - TrimCount
  /\ Cardinality(mmChunks) = ChunkLimit + 1 - TrimCount

\* C3: the stop handler of a recording session for which no non-empty chunk
\* was recorded (its recorder emitted none, the final one included) creates
\* a blob of size 0, creates and registers a URL for it, publishes it as
\* videoUrl, records the size 0 and sets no error.  Stated of the handler
\* runs in which URL.createObjectURL answers; a throw there is the
\* blob-assembly failure the catch of lines 532-534 reports.
C3_EmptyRecording ==
  [][(last'.op = "onstop" /\ recorders'[last'.a].emitted = 0)
       => /\ Len(blobs') = Len(blobs) + 1
          /\ BlobSize(blobs'[Len(blobs')].chunks) = 0
          /\ nUrls' = nUrls + 1
          /\ nUrls' \in mmUrls'
          /\ nUrls' \notin revoked'
          /\ mounted => /\ videoUrl' = nUrls'
                        /\ videoUrl' # Null
                        /\ videoSize' = 0
                        /\ error' = error]_vars

\* C4: switchCamera invoked while previewing with facing mode m stops the
\* tracks of the current stream, and the acquisition request of its restart
\* carries the facing mode opposite to m.
C4_SwitchRestartsOpposite ==
  [][/\ (last'.op = "switchCamera" /\ isPreviewing)
          => videoStreamRef \notin live'
     /\ last'.op = "switchTimer"
          => /\ last'.call.target = Flip(last'.call.fm)
             /\ lastRequest'.facingMode = last'.call.target]_vars

\* C5: applyFilters gives "none" when all four settings are default, exactly
\* the one term when exactly one is not, and otherwise the non-default terms
\* in the order named filter, brightness, contrast, saturate separated by
\* single blanks; a call returns that expression.
C5_FilterComposition ==
  LET result == applyFilters(filter, brightness, contrast, saturation)
      named == IF filter # "none" THEN <<filter>> ELSE <<>>
      bright == IF brightness # DefaultLevel
                  THEN <<"brightness(" \o ToString(brightness) \o "%)">>
                  ELSE <<>>
      contr == IF contrast # DefaultLevel
                 THEN <<"contrast(" \o ToString(contrast) \o "%)">>
                 ELSE <<>>
      satur == IF saturation # DefaultLevel
                 THEN <<"saturate(" \o ToString(saturation) \o "%)">>
                 ELSE <<>>
      terms == named \o bright \o contr \o satur
  IN /\ Len(terms) = 0 => result = "none"
     /\ Len(terms) = 1 => result = terms[1]
     /\ Len(terms) = 2 => result = terms[1] \o " " \o terms[2]
     /\ Len(terms) = 3 => result = terms[1] \o " " \o terms[2] \o " "
                                     \o terms[3]
     /\ Len(terms) = 4 => result = terms[1] \o " " \o terms[2] \o " "
                                     \o terms[3] \o " " \o terms[4]
     /\ last.op = "applyFilters" => filterString = result

\* C5 witness: applyFilters was called with three settings off their
\* defaults.
C5_ThreeTerms ==
  /\ last.op = "applyFilters"
  /\ contrast = DefaultLevel
  /\ filterString = "grayscale(100%) brightness(50%) saturate(0%)"

\* C6: once the unmount cleanup has run and no recorder's stop handler is
\* still to come, every object URL the component created (the worker
\* script's and the artifacts') is revoked and the registry's URL set is
\* empty.
C6_TeardownRevokesAll ==
  (~mounted /\ \A r \in 1..Len(recorders) : ~recorders[r].stopping)
    => /\ \A u \in 1..nUrls : u \in revoked
       /\ mmUrls = {}

\* C7: the unmount cleanup cancels the animation callback and the interval
\* timer and releases the device tracks: when it has run no acquired stream
\* has a live track.
C7_TeardownReleasesTracks ==
  [][last'.op = "unmount"
       => /\ live' = {}
          /\ recordingIntervalRef \notin intervals']_vars

\* C8: the URL of an earlier artifact is revoked when a new recording
\* starts, so at most one artifact URL is unrevoked at any time.
C8_OneArtifactUrl ==
  Cardinality({u \in (WorkerUrl + 1)..nUrls : u \notin revoked}) <= 1

\* C9: a startPreview invocation issues at most two requests; the second
\* is issued by the retry timer, which is scheduled only when the first
\* request itself failed (the invocation was at its getUserMedia) with
\* NotAllowedError or PermissionDeniedError and the permission check found
\* neither permission denied; any other error kind sets the message and
\* ends the invocation without retry; a failed retry sets its message and
\* schedules nothing.
C9_RetryBounded ==
  /\ [](\A t \in BagToSet(tasks) \cup BagToSet(timers) :
          /\ t.n <= 2
          /\ t.n = 2 => t.kind = "retry")
  /\ [][/\ (\E t \in BagToSet(timers') :
              /\ t.kind = "retry"
              /\ CopiesIn(t, timers') > CopiesIn(t, timers))
             => /\ last'.op = "permissionCheck"
                /\ last'.call.n = 1
                /\ last'.call.at = "gum"
                /\ last'.call.err \in PermissionDenial
                /\ last'.a \in {"granted", "prompt"}
                /\ last'.b \in {"granted", "prompt"}
        /\ (\E t \in BagToSet(tasks') :
              /\ t.n > 1 /\ t.pc = "gum"
              /\ CopiesIn(t, tasks') > CopiesIn(t, tasks))
             => /\ last'.op = "retryTimer"
                /\ last'.call.n = 1
                /\ nRequests' = nRequests + 1
        /\ (last'.op = "previewFailed" /\ last'.a \notin PermissionDenial)
             => /\ mounted => error' = ErrPreview
                /\ last'.call.n = 1
                /\ tasks' = Take(tasks, last'.call)
                /\ timers' = timers
                /\ nRequests' = nRequests
        /\ last'.op = "retryFailed"
             => /\ mounted => error' = ErrRetry
                /\ tasks' = Take(tasks, last'.call)
                /\ timers' = timers
                /\ nRequests' = nRequests]_vars

\* C10: when the getUserMedia of the first attempt fails with a permission
\* denial and the camera or the microphone permission is 'denied', the
\* invocation ends: the message is set, no retry is scheduled, no request
\* is issued, no stream is stored and isPreviewing is left as it was.
C10_DeniedIsTerminal ==
  [][/\ (last'.op = "previewFailed" /\ last'.call.pc = "gum")
          => /\ videoStreamRef' = videoStreamRef
             /\ live' = live
             /\ isPreviewing' = isPreviewing
     /\ (/\ last'.op = "permissionCheck"
         /\ last'.call.at = "gum"
         /\ last'.call.err \in PermissionDenial
         /\ last'.a = "denied" \/ last'.b = "denied")
          => /\ mounted => /\ error' = IF "reject" \in {last'.a, last'.b}
                                         THEN ErrPermCheck ELSE ErrDenied
                           /\ ~isLoading'
             /\ tasks' = Take(tasks, last'.call)
             /\ timers' = timers
             /\ nRequests' = nRequests
             /\ videoStreamRef' = videoStreamRef
             /\ live' = live
             /\ isPreviewing' = isPreviewing]_vars

\* C10 witness: the first request was refused, the camera permission is
\* denied, and the invocation has ended with its message.
C10_Denied ==
  /\ mounted
  /\ last.op = "permissionCheck"
  /\ last.call.at = "gum" /\ last.call.err = "NotAllowedError"
  /\ last.a = "denied" /\ last.b = "granted"
  /\ error = ErrDenied
  /\ ~isPreviewing /\ ~isLoading
  /\ videoStreamRef = Null /\ live = {}
  /\ BagToSet(timers) = {} /\ BagToSet(tasks) = {}

\* C11: each stopped recording has exactly one blob assembled, by its stop
\* handler; the blob is the buffer at that moment in order, and holds every
\* non-empty chunk the recording emitted when it emitted fewer than 1001;
\* one URL is created and registered for it, its size is recorded and the
\* buffer is empty afterwards.
C11_ConsumedOnce ==
  /\ [](\A r \in 1..Len(recorders) :
          Cardinality({k \in 1..Len(blobs) : blobs[k].by = r}) <= 1)
  /\ [][last'.op \in {"onstop", "onstopCaught"}
          => LET r == last'.a
                 blob == blobs'[Len(blobs')]
                 final == IF last'.b > 0
                            THEN <<[id |-> nChunks', size |-> last'.b,
                                    by |-> r]>>
                            ELSE <<>>
             IN /\ Len(blobs') = Len(blobs) + 1
                /\ blob.by = r
                /\ Len(recordedChunks) < ChunkLimit
                     => blob.chunks = recordedChunks \o final
                /\ recorders'[r].emitted <= ChunkLimit
                     => Len(SelectSeq(blob.chunks, LAMBDA c : c.by = r))
                          = recorders'[r].emitted
                /\ nUrls' = nUrls + 1
                /\ nUrls' \in mmUrls'
                /\ mounted => /\ videoUrl' = nUrls'
                              /\ videoSize' = BlobSize(blob.chunks)
                /\ recordedChunks' = <<>>]_vars

\* C12: every completion of startPreview, startRecording or downloadVideo,
\* successful or failed with any error kind, leaves isLoading false, and
\* isLoading is false whenever none of them is in flight: the start buttons
\* are never left disabled.
C12_LoadingReset ==
  /\ [](( /\ mounted
           /\ \A t \in BagToSet(tasks) : t.kind \notin {"preview", "record"})
          => ~isLoading)
  /\ [][( /\ mounted
          /\ \/ last'.op = "playing" /\ last'.call.kind = "preview"
             \/ last'.op = "previewFailed" /\ last'.a \notin PermissionDenial
             \/ last'.op = "permissionCheck"
             \/ last'.op = "startRecording" /\ last'.a # "none"
             \/ last'.op = "recordAcquired"
             \/ last'.op = "recordFailed"
             \/ last'.op = "downloadVideo")
          => ~isLoading']_vars

\* C12 witness: startRecording failed to get its stream and the buttons are
\* enabled again.
C12_FailedNotLoading ==
  /\ mounted
  /\ last.op = "recordFailed"
  /\ error = ErrRecording
  /\ ~isLoading
  /\ BagToSet(tasks) = {}

\* C13: while the preview is on and the video reports valid dimensions, every
\* draw that completes (from the loadedmetadata listeners or from an animation
\* frame) leaves its next draw callback scheduled.
C13_DrawReschedules ==
  [][( /\ mounted /\ isPreviewing
       /\ last'.op \in {"loadedmetadata", "frame"}
       /\ last'.a = "valid")
       => LET ran == IF last'.op = "frame" THEN 1 ELSE last'.b
              before == IF last'.op = "frame" THEN Cardinality(draws) - 1
                                              ELSE Cardinality(draws)
          IN Cardinality(draws') = before + ran]_vars

\* C14: when stopPreview returns (called by the Stop Preview button or by
\* switchCamera) no draw callback is left scheduled, so none runs afterwards.
C14_StopCancelsDraws ==
  [][( \/ last'.op = "stopPreview"
       \/ last'.op = "switchCamera" /\ isPreviewing)
       => draws' = {}]_vars

\* C15: the blob of a recording holds only chunks emitted by that recording's
\* recorder: no chunk of an earlier recording is in a later blob and none of a
\* later recording is taken by the stop handler of an earlier one.
C15_OwnChunksOnly ==
  \A k \in 1..Len(blobs) :
    \A i \in 1..Len(blobs[k].chunks) : blobs[k].chunks[i].by = blobs[k].by

\* C16: once stopRecording has stopped a recorder that was recording, and the
\* host delivers its stop event, the stop handler runs and (on the mounted
\* component) either videoUrl and videoSize hold the URL and the size of the
\* blob it has just built, or the message "Failed to process recording: "
\* is set.
C16_StopPublishes ==
  \A r \in 1..MaxRecorders :
    (r <= Len(recorders) /\ recorders[r].stopping)
      ~> ( /\ last.op \in {"onstop", "onstopCaught"} /\ last.a = r
           /\ blobs # <<>> /\ blobs[Len(blobs)].by = r
           /\ mounted => \/ /\ last.op = "onstop"
                            /\ videoUrl = nUrls
                            /\ videoSize = BlobSize(blobs[Len(blobs)].chunks)
                         \/ /\ last.op = "onstopCaught"
                            /\ error = ErrProcess )

\* C16 witness: the stop handler of a stopped recorder has published the
\* blob of one chunk.
C16_Published ==
  /\ mounted /\ last.op = "onstop" /\ ~recorders[last.a].stopping
  /\ videoUrl = nUrls /\ videoSize = 1
  /\ BlobSize(blobs[Len(blobs)].chunks) = 1

\* C17: a startRecording that fails (getUserMedia rejects, new MediaRecorder
\* throws, or start() throws) sets the error message, leaves isRecording as it
\* was, starts no recording interval timer, and retries nothing: no new
\* request, task or timer.
C17_FailedStart ==
  [][( \/ last'.op = "recordFailed"
       \/ last'.op = "recordAcquired" /\ last'.b # "ok"
       \/ last'.op = "startRecording"
            /\ last'.a \in {"constructorThrows", "startThrows"})
       => /\ mounted => error' = ErrRecording
          /\ isRecording' = isRecording
          /\ intervals' = intervals
          /\ recordingIntervalRef' = recordingIntervalRef
          /\ nRequests' = nRequests
          /\ timers' = timers
          /\ \A t \in BagToSet(tasks') :
               CopiesIn(t, tasks') <= CopiesIn(t, tasks)]_vars

C17_StartThrew ==
  /\ mounted /\ last.op = "recordAcquired" /\ last.b = "startThrows"
  /\ error = ErrRecording /\ ~isRecording /\ intervals = {}
  /\ BagToSet(tasks) = {} /\ BagToSet(timers) = {}

\* C18: recordingTime is 0 when startRecording begins, at most one recording
\* interval timer is active at any time, the timer advances recordingTime
\* only while recording, and stopRecording leaves no interval timer active,
\* so the elapsed time stands still until the next startRecording.
C18_OneTimer ==
  /\ [](Cardinality(intervals) <= 1)
  /\ [][last'.op = "startRecording" => recordingTime' = 0]_vars
  /\ [][last'.op = "tick" => isRecording]_vars
  /\ [][last'.op = "stopRecording" => intervals' = {}]_vars

\* C19: stopRecording stops the recorder and the interval timer held by the
\* refs and sets isRecording to false; with isPreviewing true every live
\* stream stays live, with isPreviewing false the stream of videoStreamRef is
\* stopped; the preview state is unchanged either way.
C19_StopRecording ==
  [][last'.op = "stopRecording"
       => /\ isRecording' = FALSE
          /\ isPreviewing' = isPreviewing
          /\ isPreviewing => live' = live
          /\ ~isPreviewing => /\ videoStreamRef \notin live'
                              /\ live' = live \ {videoStreamRef}
          /\ mediaRecorderRef # Null
               => recorders'[mediaRecorderRef].state = "inactive"
          /\ recordingIntervalRef \notin intervals']_vars

C19_StoppedWithoutPreview ==
  /\ last.op = "stopRecording" /\ ~isPreviewing /\ ~isRecording
  /\ videoStreamRef # Null /\ live = {}
  /\ mediaRecorderRef # Null /\ recorders[mediaRecorderRef].stopping

\* C20: a dataavailable event with an empty chunk changes neither the buffer
\* nor the registry; one with a non-empty chunk leaves the chunk as the last
\* element of the buffer and in the registry (below the chunk limit: the
\* buffer is the old buffer with the chunk appended, the registry the old one
\* with the chunk added).
C20_DataAvailable ==
  [][last'.op = "dataavailable"
       => LET c == [id |-> nChunks', size |-> last'.b, by |-> last'.a]
          IN IF last'.b = 0
               THEN /\ recordedChunks' = recordedChunks
                    /\ mmChunks' = mmChunks
               ELSE /\ recordedChunks' # <<>>
                    /\ recordedChunks'[Len(recordedChunks')] = c
                    /\ c \in mmChunks'
                    /\ Len(recordedChunks) < ChunkLimit
                         => /\ recordedChunks' = Append(recordedChunks, c)
                            /\ mmChunks' = mmChunks \cup {c}]_vars

C20_EmptyIgnored ==
  /\ last.op = "dataavailable" /\ last.b = 0
  /\ Len(recordedChunks) = 2 /\ Cardinality(mmChunks) = 2

\* C21: at most one draw loop is active at any time: never more than one draw
\* callback is pending.
C21_OneDrawLoop == Cardinality(draws) <= 1

\* C22: whenever the mounted component is idle (isPreviewing and isRecording
\* false, no startPreview or startRecording call in flight and no restart or
\* retry timer pending) no acquired stream has a live track.
C22_IdleNoLiveTrack ==
  ( /\ mounted /\ ~isPreviewing /\ ~isRecording
    /\ BagToSet(tasks) = {} /\ BagToSet(timers) = {})
    => live = {}

\* C23: while the component is mounted the registry's chunk set is the set of
\* chunks in the chunk buffer (so it holds no chunk of a recording already
\* assembled or reset, and never more than 1000 chunks).
C23_RegistryIsBuffer ==
  mounted => /\ mmChunks = Range(recordedChunks)
             /\ Cardinality(mmChunks) <= ChunkLimit

\* C24: every recorder is created with mimeType 'video/webm;codecs=vp9,opus'
\* when the host reports it supported and 'video/webm' otherwise, and with
\* videoBitsPerSecond 5,000,000 for quality 1080p, 2,500,000 for 720p and
\* 1,000,000 for any other quality.
C24_EncoderOptions ==
  [][Len(recorders') > Len(recorders)
       => LET supported == IF last'.op = "recordAcquired" THEN last'.a
                                                          ELSE last'.b
          IN /\ last'.op \in {"recordAcquired", "startRecording"}
             /\ lastOptions'.mimeType
                  = IF supported THEN "video/webm;codecs=vp9,opus"
                                 ELSE "video/webm"
             /\ videoQuality = "1080p"
                  => lastOptions'.videoBitsPerSecond = 5000000
             /\ videoQuality = "720p"
                  => lastOptions'.videoBitsPerSecond = 2500000
             /\ videoQuality \notin {"1080p", "720p"}
                  => lastOptions'.videoBitsPerSecond = 1000000]_vars

C24_FallbackType ==
  /\ last.op = "recordAcquired" /\ last.a = FALSE /\ last.b = "ok"
  /\ videoQuality = "480p"
  /\ recorders # <<>> /\ recorders[Len(recorders)].state = "recording"
  /\ lastOptions = [mimeType |-> "video/webm", videoBitsPerSecond |-> 1000000]

====
